---- MODULE Spec2Model ----
(***************************************************************************)
(* A model of the CFF table reader of pathfinder (src/tables/cff.rs): the  *)
(* INDEX navigator, the Top DICT operand scanner, table construction, the  *)
(* Type 2 CharString interpreter and the glyph bounds reducer.             *)
(*                                                                         *)
(* A byte buffer is a sequence of numbers 0..255.  A Rust slice cursor     *)
(* `&[u8]` over the table is a record [pos, end]: the 0-based offset of    *)
(* its first byte in the table and the offset one past its last byte.      *)
(*                                                                         *)
(* 32-bit quantities are kept in their two's complement signed reading     *)
(* (the model checker's integers are 32 bits wide): a u32 of 2^31 or more  *)
(* is a negative number here, and so is the wrapped result of a u32        *)
(* subtraction.  usize is 64 bits wide.                                    *)
(***************************************************************************)
EXTENDS Integers, Sequences, FiniteSets, TLC

VARIABLES
    table,            \* FontTable.bytes: the bytes of the CFF table
    overflow_checks,  \* the build: TRUE when integer overflow panics (debug)
    pc,               \* where the caller is
    char_strings,     \* CffTable.char_strings
    new_result,       \* what CffTable::new returned
    glyph_id,         \* the argument of the running query
    query,            \* the entry point called: for_each_point or glyph_bounds
    reader,           \* the cursor of the running operation
    found,            \* the last call of find_in_index / skip_index: argument and return
    stack,            \* EvaluationStack: [array, size]
    pos,              \* the pen
    start,            \* the start of the open contour
    index_in_contour,
    hint_count,
    points,           \* the calls made to the callback, in order
    bounds,           \* the GlyphBounds the closure of glyph_bounds folds
    result,           \* what for_each_point returned
    bounds_result,    \* what glyph_bounds returned
    history           \* the outcomes of the queries the handle has served

vars == <<table, overflow_checks, pc, char_strings, new_result, glyph_id, query,
          reader, found, stack, pos, start, index_in_contour, hint_count,
          points, bounds, result, bounds_result, history>>

(***************************************************************************)
(* Integer widths.                                                         *)
(***************************************************************************)
U16Max == 65535

\* `v as i16` of an i32, and the wrapped result of an i16 operation.
AsI16(v) == ((v + 32768) % 65536) - 32768

\* `v as u16` after a wrapped u16 operation.
AsU16(v) == v % 65536

\* a < b for two u32 in the signed reading.
ULess(a, b) ==
    \/ a >= 0 /\ b < 0
    \/ (a >= 0) = (b >= 0) /\ a < b

(***************************************************************************)
(* The bounded byte cursor: byteorder's ReadBytesExt on &[u8], and Jump.   *)
(***************************************************************************)
Remaining(r) == r.end - r.pos

ByteAt(t, o) == t[o + 1]

WholeTable(t) == [pos |-> 0, end |-> Len(t)]

\* A failed read or seek: the caller maps it to FontError::UnexpectedEof.
Eof(r) == [ok |-> FALSE, val |-> 0, rd |-> r]

read_u8(t, r) ==
    IF Remaining(r) >= 1
    THEN [ok |-> TRUE, val |-> ByteAt(t, r.pos), rd |-> [r EXCEPT !.pos = @ + 1]]
    ELSE Eof(r)

read_u16(t, r) ==
    IF Remaining(r) >= 2
    THEN [ok |-> TRUE,
          val |-> ByteAt(t, r.pos) * 256 + ByteAt(t, r.pos + 1),
          rd |-> [r EXCEPT !.pos = @ + 2]]
    ELSE Eof(r)

read_i16(t, r) ==
    LET u == read_u16(t, r)
    IN  IF u.ok THEN [u EXCEPT !.val = IF @ >= 32768 THEN @ - 65536 ELSE @] ELSE u

\* Big-endian 32 bits, in the signed reading (see the note at the top).
read_i32(t, r) ==
    IF Remaining(r) >= 4
    THEN LET b0 == ByteAt(t, r.pos)
             hi == IF b0 >= 128 THEN b0 - 256 ELSE b0
         IN  [ok |-> TRUE,
              val |-> hi * 16777216 + ByteAt(t, r.pos + 1) * 65536
                      + ByteAt(t, r.pos + 2) * 256 + ByteAt(t, r.pos + 3),
              rd |-> [r EXCEPT !.pos = @ + 4]]
    ELSE Eof(r)

read_u32(t, r) == read_i32(t, r)

\* util::Jump for &[u8]: a relative seek forward, refused when it would run
\* past the end of the slice.  A negative n stands for a usize beyond 2^31.
jump(r, n) ==
    IF n >= 0 /\ n <= Remaining(r)
    THEN [ok |-> TRUE, val |-> 0, rd |-> [r EXCEPT !.pos = @ + n]]
    ELSE Eof(r)

(***************************************************************************)
(* The INDEX navigator.                                                    *)
(***************************************************************************)
\* What an operation on a cursor returns: err is "none" for Ok(..),
\* a FontError, or "panic"; some/val are the Option<u32> of find_in_index.
Ret(err, some, val, r) == [err |-> err, some |-> some, val |-> val, rd |-> r]

Fail(err, r) == Ret(err, FALSE, 0, r)

\* `let x = v; F(x)`: v is computed once, then F of it.
Bind(v, F(_)) == CHOOSE y \in { F(x) : x \in {v} } : TRUE

\* `try!(read.map_err(FontError::eof))` followed by F of the value read.
TryRead(a, r, F(_)) == Bind(a, LAMBDA x : IF x.ok THEN F(x) ELSE Fail("UnexpectedEof", r))

\* `try!(call)` followed by F of what the call returned.
Try(a, r, F(_)) == Bind(a, LAMBDA x : IF x.err = "none" THEN F(x) ELSE Fail(x.err, r))

read_offset(t, r, size) ==
    CASE size = 1 ->
           TryRead(read_u8(t, r), r, LAMBDA a : Ret("none", TRUE, a.val, a.rd))
      [] size = 2 ->
           TryRead(read_u16(t, r), r, LAMBDA a : Ret("none", TRUE, a.val, a.rd))
      [] size = 3 ->
           TryRead(read_u8(t, r), r, LAMBDA hi :
           TryRead(read_u16(t, hi.rd), r, LAMBDA lo :
           Ret("none", TRUE, hi.val * 65536 + lo.val, lo.rd)))
      [] size = 4 ->
           TryRead(read_u32(t, r), r, LAMBDA a : Ret("none", TRUE, a.val, a.rd))
      [] OTHER -> Fail("CffBadOffset", r)

\* The slot of the offset array find_in_index seeks to: min(index, count).
OffsetSlot(index, count) == IF index < count THEN index ELSE count

\* RecordSeek with the offsets taken as 0-based.
RecordSeekZeroBased(off_size, count, offset) == off_size * (count + 1) + offset

\* The seek, from the byte after offSize, that lands on the record: over the
\* count + 1 offsets and the offset - 1 bytes of data before the record.
RecordSeek(off_size, count, offset) == off_size * (count + 1) + offset - 1

\* index is a u16.  The u32 subtraction of the two offsets overflows when
\* the offsets decrease: a panic with overflow checks, a wrapped u32 without.
\* An offset of 2^31 or more makes the last seek longer than any slice.
find_in_index(t, r, index, checks) ==
    TryRead(read_u16(t, r), r, LAMBDA count :
    IF count.val = 0 THEN Ret("none", FALSE, 0, count.rd)
    ELSE
    TryRead(read_u8(t, count.rd), r, LAMBDA off_size :
    TryRead(jump(off_size.rd, off_size.val * OffsetSlot(index, count.val)), r, LAMBDA j :
    Try(read_offset(t, j.rd, off_size.val), r, LAMBDA offset :
    Try(IF index < count.val
        THEN read_offset(t, offset.rd, off_size.val)
        ELSE Ret("none", FALSE, 0, offset.rd), r, LAMBDA next :
    IF next.some /\ ULess(next.val, offset.val) /\ checks
    THEN Fail("panic", r)
    ELSE
    TryRead(IF offset.val < 0
            THEN Eof(off_size.rd)
            ELSE jump(off_size.rd, RecordSeek(off_size.val, count.val, offset.val)),
            r, LAMBDA seek :
    Ret("none", next.some, IF next.some THEN next.val - offset.val ELSE 0, seek.rd)))))))

\* skip_index asking for the first record instead of the last offset.
skip_index_first(t, r, checks) ==
    Bind(find_in_index(t, r, 0, checks), LAMBDA f : Ret(f.err, FALSE, 0, f.rd))


skip_index(t, r, checks) ==
    Bind(find_in_index(t, r, U16Max, checks), LAMBDA f : Ret(f.err, FALSE, 0, f.rd))

(***************************************************************************)
(* The DICT operand scanner.                                               *)
(***************************************************************************)
NoInteger == [some |-> FALSE, val |-> 0]

SomeInteger(v) == [some |-> TRUE, val |-> v]

RECURSIVE skip_real(_, _)
\* The loop of token 30: reads bytes up to the first whose low nibble is
\* 0xf.  ok is FALSE when the bytes run out first.
skip_real(t, r) ==
    Bind(read_u8(t, r), LAMBDA b :
    IF ~b.ok THEN b
    ELSE IF b.val % 16 = 15 THEN b
    ELSE skip_real(t, b.rd))

\* EscapedOperator as the sub-code alone.
EscapedOperatorSubCode(b0, b1) == b1

\* The id a two-byte operator 12 b1 is compared with.
EscapedOperator(b0, b1) == b1 * 256 + b0

\* On a matching operator: the remembered operand, or the error.
DictMatch(last, r) ==
    IF last.some THEN Ret("none", TRUE, last.val, r)
    ELSE Fail("CffIntegerNotFound", r)

\* What token 30 leaves of last_integer_operand.
AfterReal(last) == last

RECURSIVE dict_scan(_, _, _, _)
\* The loop of get_integer_in_dict, last being last_integer_operand.
dict_scan(t, r, operator, last) ==
    TryRead(read_u8(t, r), r, LAMBDA b0 :
    IF b0.val >= 32 /\ b0.val <= 246
    THEN dict_scan(t, b0.rd, operator, SomeInteger(b0.val - 139))
    ELSE IF b0.val >= 247 /\ b0.val <= 250
    THEN TryRead(read_u8(t, b0.rd), r, LAMBDA b1 :
         dict_scan(t, b1.rd, operator,
                   SomeInteger((b0.val - 247) * 256 + b1.val + 108)))
    ELSE IF b0.val >= 251 /\ b0.val <= 254
    THEN TryRead(read_u8(t, b0.rd), r, LAMBDA b1 :
         dict_scan(t, b1.rd, operator,
                   SomeInteger((-(b0.val - 251)) * 256 - b1.val - 108)))
    ELSE IF b0.val = 28
    THEN TryRead(read_i16(t, b0.rd), r, LAMBDA n :
         dict_scan(t, n.rd, operator, SomeInteger(n.val)))
    ELSE IF b0.val = 29
    THEN TryRead(read_i32(t, b0.rd), r, LAMBDA n :
         dict_scan(t, n.rd, operator, SomeInteger(n.val)))
    ELSE IF b0.val = 30
    THEN TryRead(skip_real(t, b0.rd), r, LAMBDA e :
         dict_scan(t, e.rd, operator, AfterReal(last)))
    ELSE IF b0.val = 12
    THEN TryRead(read_u8(t, b0.rd), r, LAMBDA b1 :
         IF operator = EscapedOperator(b0.val, b1.val)
         THEN DictMatch(last, b1.rd)
         ELSE dict_scan(t, b1.rd, operator, NoInteger))
    ELSE IF operator = b0.val THEN DictMatch(last, b0.rd)
    ELSE dict_scan(t, b0.rd, operator, NoInteger))

get_integer_in_dict(t, r, operator) == dict_scan(t, r, operator, NoInteger)

(***************************************************************************)
(* Table construction.                                                     *)
(***************************************************************************)
CharStringsOperator == 17

\* The cursor get_integer_in_dict is given: the one find_in_index left at
\* the start of the Top DICT record (the record's length is not applied).
TopDictReader(top) == top.rd

\* The cursor the second skip_index is given: the one get_integer_in_dict
\* left, just past the operator it matched.
StringIndexReader(dict) == dict.rd

\* CffTable::new: err is "none" with the handle's char_strings in val.
\* hdr_size as usize - 3 with hdr_size below 3 is a panic with overflow
\* checks and else a usize near 2^64, a seek no slice is long enough for.
new(t, checks) ==
    TryRead(read_u8(t, WholeTable(t)), WholeTable(t), LAMBDA major :
    TryRead(read_u8(t, major.rd), major.rd, LAMBDA minor :
    IF major.val # 1 \/ minor.val # 0 THEN Fail("UnsupportedCffVersion", minor.rd)
    ELSE
    TryRead(read_u8(t, minor.rd), minor.rd, LAMBDA hdr_size :
    IF hdr_size.val < 3 /\ checks THEN Fail("panic", hdr_size.rd)
    ELSE
    TryRead(IF hdr_size.val < 3
            THEN Eof(hdr_size.rd)
            ELSE jump(hdr_size.rd, hdr_size.val - 3), hdr_size.rd, LAMBDA hdr :
    Try(skip_index(t, hdr.rd, checks), hdr.rd, LAMBDA name :
    Try(find_in_index(t, name.rd, 0, checks), name.rd, LAMBDA top :
    IF ~top.some THEN Fail("CffTopDictNotFound", top.rd)
    ELSE
    Try(get_integer_in_dict(t, TopDictReader(top), CharStringsOperator), top.rd,
        LAMBDA dict :
    Try(skip_index(t, StringIndexReader(dict), checks), dict.rd, LAMBDA strings :
    Ret("none", TRUE, dict.val, strings.rd)))))))))

(***************************************************************************)
(* The evaluation stack.                                                   *)
(***************************************************************************)
StackCapacity == 48

\* EvaluationStack::new
EmptyStack == [array |-> [i \in 0..(StackCapacity - 1) |-> 0], size |-> 0]

\* HasRoom off by one.
HasRoomInclusive(s) == s.size <= StackCapacity

\* The test of EvaluationStack::push: is there room for one more value?
HasRoom(s) == s.size < StackCapacity

\* EvaluationStack::push, when there is room.
push(s, value) == [array |-> [s.array EXCEPT ![s.size] = value], size |-> s.size + 1]

\* EvaluationStack::clear: the size only, the array keeps its values.
clear(s) == [s EXCEPT !.size = 0]

(***************************************************************************)
(* Points, and the steps an operator takes on the pen.                     *)
(*                                                                         *)
(* An operator's branch is a sequence of steps over the pen, the contour   *)
(* and the callback: "dx"/"dy" add a delta to the pen, "emit" calls the    *)
(* callback with the pen and index_in_contour + v, "adv" adds v to         *)
(* index_in_contour, "close" is close_path_if_necessary, "move" is the     *)
(* tail of a moveto, "panic" an index past the end of a chunk or a slice.  *)
(***************************************************************************)
Origin == [x |-> 0, y |-> 0]

RECURSIVE FlattenFrom(_, _)
FlattenFrom(seqs, i) ==
    IF i > Len(seqs) THEN <<>> ELSE seqs[i] \o FlattenFrom(seqs, i + 1)

\* The concatenation of a sequence of sequences.
Flatten(seqs) == Bind(seqs, LAMBDA ss : FlattenFrom(ss, 1))

Point(position, index, kind) ==
    [position |-> position, index_in_contour |-> index, kind |-> kind]

Step(k, v, kind) == [k |-> k, v |-> v, kind |-> kind]

Dx(v) == Step("dx", v, "")
Dy(v) == Step("dy", v, "")
Emit(kind, v) == Step("emit", v, kind)
Adv(v) == Step("adv", v, "")
Close == Step("close", 0, "OnCurve")
Move == Step("move", 0, "OnCurve")
Panic == Step("panic", 0, "")

Min(a, b) == IF a < b THEN a ELSE b
Max(a, b) == IF a > b THEN a ELSE b

\* GlyphBounds::default(): the identity of the fold, which the first point
\* overrides on every side.
GlyphBoundsDefault ==
    [left |-> 2147483647, bottom |-> 2147483647,
     right |-> -2147483647 - 1, top |-> -2147483647 - 1]

\* widen with the maxima taken of the wrong coordinates.
widen_crossed(b, point) ==
    [left |-> Min(b.left, point.position.x),
     bottom |-> Min(b.bottom, point.position.y),
     right |-> Max(b.right, point.position.y),
     top |-> Max(b.top, point.position.x)]

\* The closure glyph_bounds passes to for_each_point.
widen(b, point) ==
    [left |-> Min(b.left, point.position.x),
     bottom |-> Min(b.bottom, point.position.y),
     right |-> Max(b.right, point.position.x),
     top |-> Max(b.top, point.position.y)]

\* A call of the callback: the caller's record of points, and for
\* glyph_bounds the fold of its closure.
callback(m, point, q) ==
    [m EXCEPT !.pts = Append(@, point),
              !.bnd = IF q = "glyph_bounds" THEN widen(@, point) ELSE @]

\* The closing point put at the pen instead of the start of the contour.
ClosingPositionAtPen(m) == m.pos

\* The position close_path_if_necessary gives the closing point.
ClosingPosition(m) == m.start

\* close_path_if_necessary without its test of the contour index.
close_path_unconditionally(m, q) ==
    callback(m, Point(ClosingPosition(m), m.idx, "OnCurve"), q)

\* close_path_if_necessary
close_path_if_necessary(m, q) ==
    IF m.idx = 0 THEN m
    ELSE callback(m, Point(ClosingPosition(m), m.idx, "OnCurve"), q)

\* An i16 addition: out of range, it panics with overflow checks and wraps
\* without.
AddI16(a, d, checks) ==
    IF a + d >= -32768 /\ a + d <= 32767 THEN [ok |-> TRUE, val |-> a + d]
    ELSE [ok |-> ~checks, val |-> AsI16(a + d)]

\* A u16 addition, likewise.
AddU16(a, d, checks) ==
    IF a + d <= U16Max THEN [ok |-> TRUE, val |-> a + d]
    ELSE [ok |-> ~checks, val |-> AsU16(a + d)]

\* One step on m = [pos, start, idx, pts, bnd, err].
Apply(st, m, checks, q) ==
    CASE st.k = "dx" ->
           Bind(AddI16(m.pos.x, st.v, checks), LAMBDA a :
           IF a.ok THEN [m EXCEPT !.pos.x = a.val] ELSE [m EXCEPT !.err = "panic"])
      [] st.k = "dy" ->
           Bind(AddI16(m.pos.y, st.v, checks), LAMBDA a :
           IF a.ok THEN [m EXCEPT !.pos.y = a.val] ELSE [m EXCEPT !.err = "panic"])
      [] st.k = "emit" ->
           Bind(AddU16(m.idx, st.v, checks), LAMBDA a :
           IF a.ok THEN callback(m, Point(m.pos, a.val, st.kind), q)
           ELSE [m EXCEPT !.err = "panic"])
      [] st.k = "adv" ->
           Bind(AddU16(m.idx, st.v, checks), LAMBDA a :
           IF a.ok THEN [m EXCEPT !.idx = a.val] ELSE [m EXCEPT !.err = "panic"])
      [] st.k = "close" -> close_path_if_necessary(m, q)
      [] st.k = "move" ->
           [callback(m, Point(m.pos, 0, st.kind), q) EXCEPT !.start = m.pos, !.idx = 1]
      [] OTHER -> [m EXCEPT !.err = "panic"]

RECURSIVE RunFrom(_, _, _, _, _)
RunFrom(steps, i, m, checks, q) ==
    IF i > Len(steps) \/ m.err # "none" THEN m
    ELSE Bind(Apply(steps[i], m, checks, q), LAMBDA m2 : RunFrom(steps, i + 1, m2, checks, q))

\* The steps in order, stopping at the first panic.
Run(steps, m, checks, q) == Bind(steps, LAMBDA ss : RunFrom(ss, 1, m, checks, q))

(***************************************************************************)
(* The branches of the path operators: the steps each takes, given the     *)
(* stack.  Arg(s, i) is `stack.array[i] as i16`.                           *)
(***************************************************************************)
Arg(s, i) == AsI16(s.array[i])

\* The number of chunks `chunks(c)` cuts a slice of n elements into.
NumChunks(n, c) == (n + c - 1) \div c

\* add_curve with the second control point's deltas exchanged.
add_curve_exchanged(dx0, dy0, dx1, dy1, dx2, dy2) ==
    <<Dx(dx0), Dy(dy0), Emit("FirstCubicControl", 0),
      Dx(dy1), Dy(dx1), Emit("SecondCubicControl", 1),
      Dx(dx2), Dy(dy2), Emit("OnCurve", 2),
      Adv(3)>>

\* add_curve
add_curve(dx0, dy0, dx1, dy1, dx2, dy2) ==
    <<Dx(dx0), Dy(dy0), Emit("FirstCubicControl", 0),
      Dx(dx1), Dy(dy1), Emit("SecondCubicControl", 1),
      Dx(dx2), Dy(dy2), Emit("OnCurve", 2),
      Adv(3)>>

\* `for points in array[from..to].chunks(2)`: a line to each pair.
LineChunks(s, from, to) ==
    Flatten([j \in 1..NumChunks(to - from, 2) |->
        LET a == from + (j - 1) * 2
        IN  IF a + 1 < to
            THEN <<Dx(Arg(s, a)), Dy(Arg(s, a + 1)), Emit("OnCurve", 0), Adv(1)>>
            ELSE <<Panic>>])

\* `for chunk in array[from..to].chunks(6)`: a curve from each six.
CurveChunks(s, from, to) ==
    Flatten([j \in 1..NumChunks(to - from, 6) |->
        LET a == from + (j - 1) * 6
        IN  IF a + 5 < to
            THEN add_curve(Arg(s, a), Arg(s, a + 1), Arg(s, a + 2),
                           Arg(s, a + 3), Arg(s, a + 4), Arg(s, a + 5))
            ELSE <<Panic>>])

\* hlineto (first = "dx") and vlineto (first = "dy"): a line per operand,
\* the axis alternating.
AlternatingLines(s, first) ==
    Flatten([j \in 1..s.size |->
        <<Step(IF (j - 1) % 2 = 0 THEN first ELSE IF first = "dx" THEN "dy" ELSE "dx",
               Arg(s, j - 1), ""),
          Emit("OnCurve", 0), Adv(1)>>])

\* TrailingOperand given to every chunk of a count of 4k + 1.
TrailingOperandOfAll(s, i) == IF s.size % 4 = 1 THEN Arg(s, s.size - 1) ELSE 0

\* The last operand of a count of 4i + 5, for chunk i, else 0.
TrailingOperand(s, i) == IF i * 4 + 5 = s.size THEN Arg(s, s.size - 1) ELSE 0

\* A curve that starts vertical and ends horizontal, and the converse.
VHCurve(s, a, dxyf) ==
    add_curve(0, Arg(s, a), Arg(s, a + 1), Arg(s, a + 2), Arg(s, a + 3), dxyf)

HVCurve(s, a, dxyf) ==
    add_curve(Arg(s, a), 0, Arg(s, a + 1), Arg(s, a + 2), dxyf, Arg(s, a + 3))

\* vhcurveto (vertical_first) and hvcurveto: a curve per complete chunk of
\* four, the leading axis alternating.
AlternatingCurves(s, vertical_first) ==
    Flatten([j \in 1..(s.size \div 4) |->
        LET i == j - 1
        IN  IF (i % 2 = 0) = vertical_first
            THEN VHCurve(s, i * 4, TrailingOperand(s, i))
            ELSE HVCurve(s, i * 4, TrailingOperand(s, i))])

\* vvcurveto (vertical) and hhcurveto: an odd count gives a leading delta on
\* the other axis; then a curve from each four.
SameAxisCurves(s, vertical) ==
    LET first == s.size % 2
    IN  (IF first = 0 THEN <<>>
         ELSE IF vertical THEN <<Dx(Arg(s, 0))>> ELSE <<Dy(Arg(s, 0))>>)
        \o Flatten([j \in 1..NumChunks(s.size - first, 4) |->
             LET a == first + (j - 1) * 4
             IN  IF a + 3 < s.size
                 THEN IF vertical
                      THEN add_curve(0, Arg(s, a), Arg(s, a + 1), Arg(s, a + 2),
                                     0, Arg(s, a + 3))
                      ELSE add_curve(Arg(s, a), 0, Arg(s, a + 1), Arg(s, a + 2),
                                     Arg(s, a + 3), 0)
                 ELSE <<Panic>>])

\* The branch of each path operator.  `stack.size as usize - 2` (and - 6)
\* below zero is a panic in every build: of the subtraction with overflow
\* checks, and else of the slice, whose end is then near 2^64.
PathSteps(b0, s) ==
    CASE b0 = 4 -> <<Close, Dy(Arg(s, 0)), Move>>
      [] b0 = 5 -> LineChunks(s, 0, s.size)
      [] b0 = 6 -> AlternatingLines(s, "dx")
      [] b0 = 7 -> AlternatingLines(s, "dy")
      [] b0 = 8 -> CurveChunks(s, 0, s.size)
      [] b0 = 24 -> IF s.size < 2 THEN <<Panic>>
                    ELSE CurveChunks(s, 0, s.size - 2)
                         \o <<Dx(Arg(s, s.size - 2)), Dy(Arg(s, s.size - 1)),
                              Emit("OnCurve", 0), Adv(1)>>
      [] b0 = 25 -> IF s.size < 6 THEN <<Panic>>
                    ELSE LineChunks(s, 0, s.size - 6)
                         \o add_curve(Arg(s, s.size - 6), Arg(s, s.size - 5),
                                      Arg(s, s.size - 4), Arg(s, s.size - 3),
                                      Arg(s, s.size - 2), Arg(s, s.size - 1))
      [] b0 = 30 -> AlternatingCurves(s, TRUE)
      [] b0 = 31 -> AlternatingCurves(s, FALSE)
      [] b0 = 26 -> SameAxisCurves(s, TRUE)
      [] b0 = 27 -> SameAxisCurves(s, FALSE)
      [] b0 = 21 -> <<Close, Dx(Arg(s, 0)), Dy(Arg(s, 1)), Move>>
      [] b0 = 22 -> <<Close, Dx(Arg(s, 0)), Move>>

(***************************************************************************)
(* The operand tokens of a CharString.                                     *)
(***************************************************************************)
IsOperandToken(b0) == b0 >= 32 \/ b0 = 28

\* operand adding the second byte of a negative token.
operand_added(t, r, b0) ==
    IF b0 >= 32 /\ b0 <= 246 THEN Ret("none", TRUE, b0 - 139, r)
    ELSE IF b0 >= 247 /\ b0 <= 250
    THEN TryRead(read_u8(t, r), r, LAMBDA b1 :
         Ret("none", TRUE, (b0 - 247) * 256 + b1.val + 108, b1.rd))
    ELSE IF b0 >= 251 /\ b0 <= 254
    THEN TryRead(read_u8(t, r), r, LAMBDA b1 :
         Ret("none", TRUE, (b0 - 251) * (-256) + b1.val - 108, b1.rd))
    ELSE IF b0 = 255
    THEN TryRead(read_i32(t, r), r, LAMBDA n :
         Ret("none", TRUE, n.val \div 65536, n.rd))
    ELSE TryRead(read_i16(t, r), r, LAMBDA n : Ret("none", TRUE, n.val, n.rd))

\* operand rounding a 16.16 number to the nearest integer.
operand_rounded(t, r, b0) ==
    IF b0 >= 32 /\ b0 <= 246 THEN Ret("none", TRUE, b0 - 139, r)
    ELSE IF b0 >= 247 /\ b0 <= 250
    THEN TryRead(read_u8(t, r), r, LAMBDA b1 :
         Ret("none", TRUE, (b0 - 247) * 256 + b1.val + 108, b1.rd))
    ELSE IF b0 >= 251 /\ b0 <= 254
    THEN TryRead(read_u8(t, r), r, LAMBDA b1 :
         Ret("none", TRUE, (b0 - 251) * (-256) - b1.val - 108, b1.rd))
    ELSE IF b0 = 255
    THEN TryRead(read_i32(t, r), r, LAMBDA n :
         Ret("none", TRUE, (n.val + 32768) \div 65536, n.rd))
    ELSE TryRead(read_i16(t, r), r, LAMBDA n : Ret("none", TRUE, n.val, n.rd))

\* operand with the bias of the one-byte tokens on the two-byte ones.
operand_biased(t, r, b0) ==
    IF b0 >= 32 /\ b0 <= 246 THEN Ret("none", TRUE, b0 - 139, r)
    ELSE IF b0 >= 247 /\ b0 <= 250
    THEN TryRead(read_u8(t, r), r, LAMBDA b1 :
         Ret("none", TRUE, (b0 - 247) * 256 + b1.val + 139, b1.rd))
    ELSE IF b0 >= 251 /\ b0 <= 254
    THEN TryRead(read_u8(t, r), r, LAMBDA b1 :
         Ret("none", TRUE, (b0 - 251) * (-256) - b1.val - 108, b1.rd))
    ELSE IF b0 = 255
    THEN TryRead(read_i32(t, r), r, LAMBDA n :
         Ret("none", TRUE, n.val \div 65536, n.rd))
    ELSE TryRead(read_i16(t, r), r, LAMBDA n : Ret("none", TRUE, n.val, n.rd))

\* operand leaving its token unread.
operand_unread(t, r, b0) ==
    Ret("none", TRUE, b0 - 139, [pos |-> r.pos - 1, end |-> r.end])

\* The value an operand token pushes, b0 read and r after it.
operand(t, r, b0) ==
    IF b0 >= 32 /\ b0 <= 246 THEN Ret("none", TRUE, b0 - 139, r)
    ELSE IF b0 >= 247 /\ b0 <= 250
    THEN TryRead(read_u8(t, r), r, LAMBDA b1 :
         Ret("none", TRUE, (b0 - 247) * 256 + b1.val + 108, b1.rd))
    ELSE IF b0 >= 251 /\ b0 <= 254
    THEN TryRead(read_u8(t, r), r, LAMBDA b1 :
         Ret("none", TRUE, (b0 - 251) * (-256) - b1.val - 108, b1.rd))
    ELSE IF b0 = 255
    THEN TryRead(read_i32(t, r), r, LAMBDA n :
         Ret("none", TRUE, n.val \div 65536, n.rd))
    ELSE TryRead(read_i16(t, r), r, LAMBDA n : Ret("none", TRUE, n.val, n.rd))

\* The bytes hintmask and cntrmask skip.
HintByteCount(hints) == (hints + 7) \div 8

(***************************************************************************)
(* The prologue of for_each_point: from the handle to the CharString.      *)
(***************************************************************************)
\* `&reader[0..char_string_length as usize]`: a panic when the slice holds
\* fewer bytes (a negative length is a u32 of 2^31 or more).
CharStringSlice(r, length) ==
    IF length < 0 \/ length > Remaining(r) THEN Fail("panic", r)
    ELSE Ret("none", TRUE, length, [pos |-> r.pos, end |-> r.pos + length])

\* A glyph id past the count taken for an empty CharString.
GlyphNotFoundEmpty(r) == Ret("none", TRUE, 0, [pos |-> r.pos, end |-> r.pos])

\* What find_in_index's None is turned into.
GlyphNotFound(r) == Fail("UnexpectedEof", r)

locate(t, offset, glyph, checks) ==
    TryRead(jump(WholeTable(t), offset), WholeTable(t), LAMBDA at :
    Try(find_in_index(t, at.rd, glyph, checks), at.rd, LAMBDA f :
    IF ~f.some THEN GlyphNotFound(f.rd)
    ELSE CharStringSlice(f.rd, f.val)))

(***************************************************************************)
(* The values of the variables an operation has not touched yet.           *)
(***************************************************************************)
NoBounds == [left |-> 0, bottom |-> 0, right |-> 0, top |-> 0]

NoFound == [index |-> 0, err |-> "none", some |-> FALSE, val |-> 0]

IdleQuery ==
    /\ glyph_id = 0
    /\ query = "none"
    /\ stack = EmptyStack
    /\ pos = Origin
    /\ start = Origin
    /\ index_in_contour = 0
    /\ hint_count = 0
    /\ points = <<>>
    /\ bounds = NoBounds
    /\ result = "none"
    /\ bounds_result = "none"
    /\ history = {}

queryVars == <<glyph_id, query, stack, pos, start, index_in_contour, hint_count,
               points, bounds, result, bounds_result>>

(***************************************************************************)
(* Input buffers: INDEX structures, well-formed and not.                   *)
(***************************************************************************)
MaxCount == 2
MaxOff == 3
MaxIndexArg == 3

RECURSIVE BE(_, _)
\* v in n bytes, big-endian.
BE(v, n) == IF n = 0 THEN <<>> ELSE BE(v \div 256, n - 1) \o <<v % 256>>

RECURSIVE OffsetArray(_, _, _)
OffsetArray(offs, osz, k) ==
    IF k > Len(offs) THEN <<>>
    ELSE BE(offs[k], osz) \o OffsetArray(offs, osz, k + 1)

\* n bytes of record data, each telling its place.
DataBytes(n) == [i \in 1..n |-> 200 + i]

\* An INDEX as the format lays it out: count, offSize, count+1 offsets, data.
\* An empty INDEX is its two count bytes.
RawIndex(count, osz, offs, data) ==
    IF count = 0 THEN <<0, 0>>
    ELSE BE(count, 2) \o <<osz>> \o OffsetArray(offs, osz, 1) \o data

Take(s, k) == SubSeq(s, 1, k)

\* The bytes in front of the INDEX under test: the cursor starts after them.
IndexPad == <<255>>

CanonicalIndex == RawIndex(2, 2, <<1, 2, 4>>, DataBytes(3))

\* An offset array whose offsets have the high bit of their u32 set.
HighIndex == <<0, 1, 4, 255, 255, 255, 254, 255, 255, 255, 255, 7>>

\* INDEX structures with every offset size, offsets in any order, and data
\* that may stop short of them.
IndexBytes(counts, sizes, lengths) ==
    UNION { UNION { { RawIndex(c, sz, offs, DataBytes(n)) :
                        offs \in [1..(c + 1) -> 0..MaxOff], n \in lengths } :
                      sz \in sizes } : c \in counts }

IndexBuffers ==
    { IndexPad \o b : b \in IndexBytes(1..MaxCount, 0..5, 0..MaxOff) }
    \cup { IndexPad \o <<0, 0>> \o DataBytes(n) : n \in 0..1 }
    \cup { IndexPad \o Take(CanonicalIndex, k) : k \in 0..Len(CanonicalIndex) }
    \cup { IndexPad \o HighIndex }

InitIndex ==
    /\ table \in IndexBuffers
    /\ overflow_checks \in BOOLEAN
    /\ pc = "index"
    /\ char_strings = 0
    /\ new_result = "none"
    /\ reader = [pos |-> Len(IndexPad), end |-> Len(table)]
    /\ found = NoFound
    /\ IdleQuery

\* A call of find_in_index on the cursor.
FindInIndex(i) ==
    /\ pc = "index"
    /\ \E f \in {find_in_index(table, reader, i, overflow_checks)} :
           /\ found' = [index |-> i, err |-> f.err, some |-> f.some, val |-> f.val]
           /\ reader' = f.rd
    /\ pc' = "find_done"
    /\ UNCHANGED <<table, overflow_checks, char_strings, new_result, history>>
    /\ UNCHANGED queryVars

\* A call of skip_index on the cursor.
SkipIndex ==
    /\ pc = "index"
    /\ \E f \in {skip_index(table, reader, overflow_checks)} :
           /\ found' = [index |-> U16Max, err |-> f.err, some |-> f.some, val |-> f.val]
           /\ reader' = f.rd
    /\ pc' = "skip_done"
    /\ UNCHANGED <<table, overflow_checks, char_strings, new_result, history>>
    /\ UNCHANGED queryVars

NextIndex ==
    \/ \E i \in 0..MaxIndexArg : FindInIndex(i)
    \/ SkipIndex

SpecIndex == InitIndex /\ [][NextIndex]_vars

(***************************************************************************)
(* Input buffers: CFF tables up to the String INDEX, well-formed and not.  *)
(***************************************************************************)
MaxDictLen == 3

RECURSIVE EndOffsets(_, _)
\* The offsets after the first of a well-formed INDEX holding recs.
EndOffsets(recs, from) ==
    IF recs = <<>> THEN <<>>
    ELSE <<from + Len(Head(recs))>> \o EndOffsets(Tail(recs), from + Len(Head(recs)))

\* The well-formed INDEX, with offSize 1, that holds the records recs.
MkIndex(recs) == RawIndex(Len(recs), 1, <<1>> \o EndOffsets(recs, 1), Flatten(recs))

CffBytes(hdr, name, top, strings, tail) ==
    hdr \o MkIndex(name) \o MkIndex(top) \o MkIndex(strings) \o tail

SeqsUpTo(A, n) == UNION { [1..k -> A] : k \in 0..n }

\* 154: the operand 15; 17: CharStrings; 16: Encoding; 12: the escape;
\* 30: a real number; 31: a byte ending a real number, or operator 31.
DictAlphabet == {154, 17, 16, 12, 30, 31}

DictPrograms == SeqsUpTo(DictAlphabet, MaxDictLen)

PlainHeader == <<1, 0, 4, 1>>

Headers == { PlainHeader, <<1, 0, 5, 1, 0>>, <<1, 0, 3, 1>>, <<1, 0, 2, 1>>,
             <<1, 0, 9, 1>>, <<2, 0, 4, 1>>, <<1, 1, 4, 1>>, <<1, 0>>, <<1>>, <<>> }

PlainTopDict == <<154, 17>>

NameRecords == { <<>>, << <<65>> >> }

StringRecords == { <<>>, << <<66, 67>> >> }

\* What follows the String INDEX: nothing, or bytes that read as a DICT
\* with a CharStrings entry followed by an empty INDEX.
Tails == { <<>>, <<154, 17, 0, 0>> }

TopDictIndexes == { <<>>, <<PlainTopDict, <<139>> >>, << <<139>>, PlainTopDict>>,
                    << <<28, 0, 17>> >>, << <<29, 0, 0, 0, 17, 17>> >>,
                    << <<247, 17, 17>> >>, << <<251, 17, 17>> >> }

PlainTable == CffBytes(PlainHeader, <<>>, <<PlainTopDict>>, <<>>, <<>>)

NewTables ==
    { CffBytes(PlainHeader, name, <<d>>, strings, tail) :
        name \in NameRecords, d \in DictPrograms, strings \in StringRecords,
        tail \in Tails }
    \cup { CffBytes(h, <<>>, <<PlainTopDict>>, <<>>, <<>>) : h \in Headers }
    \cup { CffBytes(PlainHeader, <<>>, top, <<>>, <<>>) : top \in TopDictIndexes }
    \cup { Take(PlainTable, k) : k \in 0..Len(PlainTable) }

InitNew ==
    /\ table \in NewTables
    /\ overflow_checks \in BOOLEAN
    /\ pc = "new"
    /\ char_strings = 0
    /\ new_result = "none"
    /\ reader = WholeTable(table)
    /\ found = NoFound
    /\ IdleQuery

\* A call of CffTable::new on the table.
New ==
    /\ pc = "new"
    /\ \E n \in {new(table, overflow_checks)} :
           /\ new_result' = IF n.err = "none" THEN "Ok" ELSE n.err
           /\ char_strings' = n.val
           /\ pc' = IF n.err = "none" THEN "ready" ELSE "failed"
    /\ UNCHANGED <<table, overflow_checks, reader, found, history>>
    /\ UNCHANGED queryVars

NextNew == New

SpecNew == InitNew /\ [][NextNew]_vars

(***************************************************************************)
(* Input buffers: tables with a CharStrings INDEX.                         *)
(***************************************************************************)
MaxOperands == 9
MaxOver == 1
MaxGlyph == 2

\* n operand tokens, pushing 1, 2, .., n.
Operands(n) == [i \in 1..n |-> 139 + i]

\* Every byte below 32 that is not an operand token.
OperatorBytes == (0..31) \ {28}

\* rmoveto (5, -3)
Prefixes == { <<>>, <<144, 136, 21>> }

\* rmoveto (-1, 3); hlineto 2; endchar; a byte that is never read
Suffixes == { <<>>, <<138, 142, 21, 141, 6, 14, 140>> }

UnitSquare == <<139, 139, 21, 140, 139, 139, 140, 138, 139, 5, 14>>

OneCurve == <<139, 139, 139, 239, 239, 239, 8>>

MoveOnly == <<149, 159, 21, 14>>

Examples ==
    { UnitSquare, OneCurve, MoveOnly,
      \* hstem; two operands and hintmask with one mask byte; rmoveto
      <<140, 141, 1, 142, 143, 19, 255, 140, 141, 21, 14>>,
      <<140, 141, 1, 142, 143, 20, 255, 140, 141, 21, 14>>,
      \* nine hints: two mask bytes
      Operands(18) \o <<1, 19, 0, 0, 140, 22>>,
      Operands(18) \o <<3, 20, 0, 0, 140, 22>>,
      Operands(18) \o <<1, 19, 0>>,
      \* two curves from one rrcurveto
      Operands(12) \o <<8>>,
      \* the operand tokens of two, three and five bytes
      <<247, 0, 251, 0, 21, 28, 1, 44, 255, 0, 1, 128, 0, 5, 14>>,
      <<250, 255, 254, 255, 21, 28, 255, 254, 255, 255, 254, 128, 0, 5>>,
      <<247>>, <<251>>, <<28, 1>>, <<255, 0, 0, 1>>, <<12>>,
      \* the pen leaves the i16 range
      <<28, 127, 255, 22, 28, 127, 255, 6>>,
      <<28, 128, 0, 4, 28, 128, 0, 7>> }

Programs ==
    { pre \o Operands(n) \o <<op>> \o suf :
        pre \in Prefixes, n \in 0..MaxOperands, op \in OperatorBytes, suf \in Suffixes }
    \cup { Operands(n) \o suf :
             n \in (StackCapacity - 1)..(StackCapacity + MaxOver), suf \in {<<>>, <<5>>} }
    \cup Examples

QueryTables ==
    { PlainTable \o MkIndex(<<cs>>) : cs \in Programs }
    \cup { PlainTable \o MkIndex(<<MoveOnly, UnitSquare>>) }
    \cup { PlainTable \o b : b \in IndexBytes(1..MaxCount, {0, 1, 5}, {0, MaxOff}) }
    \cup { PlainTable \o Take(CanonicalIndex, k) : k \in 0..Len(CanonicalIndex) }
    \cup { PlainTable \o HighIndex }
    \* a CharStrings offset past the end of the table, and a negative one
    \cup { CffBytes(PlainHeader, <<>>, << <<v, 17>> >>, <<>>, <<>>) : v \in {160, 138} }

Init ==
    /\ table \in QueryTables
    /\ overflow_checks \in BOOLEAN
    /\ pc = "new"
    /\ char_strings = 0
    /\ new_result = "none"
    /\ reader = WholeTable(table)
    /\ found = NoFound
    /\ IdleQuery

(***************************************************************************)
(* The queries on a handle.                                                *)
(***************************************************************************)
\* What a query leaves alone: the handle, and the record of the earlier queries.
handleVars == <<table, overflow_checks, char_strings, new_result, found, history>>

\* Enter with the pen and the contour of the query before.
EnterStale(q, g, b) ==
    /\ pc = "ready"
    /\ glyph_id' = g
    /\ query' = q
    /\ stack' = EmptyStack
    /\ pos' = pos
    /\ start' = start
    /\ index_in_contour' = index_in_contour
    /\ hint_count' = 0
    /\ points' = <<>>
    /\ bounds' = b
    /\ bounds_result' = "none"
    /\ \E c \in {locate(table, char_strings, g, overflow_checks)} :
           /\ reader' = c.rd
           /\ result' = c.err
           /\ pc' = IF c.err = "none" THEN "loop" ELSE "returned"
    /\ UNCHANGED handleVars

\* The entry of for_each_point, called by q with its fresh GlyphBounds b.
Enter(q, g, b) ==
    /\ pc = "ready"
    /\ glyph_id' = g
    /\ query' = q
    /\ stack' = EmptyStack
    /\ pos' = Origin
    /\ start' = Origin
    /\ index_in_contour' = 0
    /\ hint_count' = 0
    /\ points' = <<>>
    /\ bounds' = b
    /\ bounds_result' = "none"
    /\ \E c \in {locate(table, char_strings, g, overflow_checks)} :
           /\ reader' = c.rd
           /\ result' = c.err
           /\ pc' = IF c.err = "none" THEN "loop" ELSE "returned"
    /\ UNCHANGED handleVars

ForEachPoint(g) == Enter("for_each_point", g, NoBounds)

GlyphBounds(g) == Enter("glyph_bounds", g, GlyphBoundsDefault)

\* The locals the callback and the pen steps work on.
Machine ==
    [pos |-> pos, start |-> start, idx |-> index_in_contour, pts |-> points,
     bnd |-> bounds, err |-> "none"]

Commit(m) ==
    /\ pos' = m.pos
    /\ start' = m.start
    /\ index_in_contour' = m.idx
    /\ points' = m.pts
    /\ bounds' = m.bnd

\* for_each_point returns (or unwinds with) r.
Return(r) == pc' = "returned" /\ result' = r

Continue == pc' = "loop" /\ result' = result

frameVars == <<glyph_id, query, bounds_result>>

penVars == <<pos, start, index_in_contour, points, bounds>>

\* An iteration of the loop on an operand token.
PushOperand ==
    /\ pc = "loop"
    /\ \E b0 \in {read_u8(table, reader)} :
         /\ b0.ok /\ IsOperandToken(b0.val)
         /\ \E v \in {operand(table, b0.rd, b0.val)} :
              /\ reader' = v.rd
              /\ IF v.err # "none" THEN Return(v.err) /\ stack' = stack
                 ELSE IF HasRoom(stack) THEN Continue /\ stack' = push(stack, v.val)
                 ELSE Return("CffStackOverflow") /\ stack' = stack
    /\ UNCHANGED <<hint_count, frameVars, penVars, handleVars>>

\* An iteration of the loop on path operator b.
PathOperator(b) ==
    /\ pc = "loop"
    /\ \E b0 \in {read_u8(table, reader)} :
         /\ b0.ok /\ b0.val = b
         /\ reader' = b0.rd
         /\ \E m \in {Run(PathSteps(b, stack), Machine, overflow_checks, query)} :
              /\ Commit(m)
              /\ IF m.err = "none" THEN Continue /\ stack' = clear(stack)
                 ELSE Return(m.err) /\ stack' = stack
    /\ UNCHANGED <<hint_count, frameVars, handleVars>>

VMoveTo == PathOperator(4)
RLineTo == PathOperator(5)
HLineTo == PathOperator(6)
VLineTo == PathOperator(7)
RRCurveTo == PathOperator(8)
RCurveLine == PathOperator(24)
RLineCurve == PathOperator(25)
VHCurveTo == PathOperator(30)
HVCurveTo == PathOperator(31)
VVCurveTo == PathOperator(26)
HHCurveTo == PathOperator(27)
RMoveTo == PathOperator(21)
HMoveTo == PathOperator(22)

\* The end of the loop, then close_path_if_necessary and Ok(()).
Finish(r) ==
    /\ reader' = r
    /\ Commit(close_path_if_necessary(Machine, query))
    /\ Return("Ok")
    /\ UNCHANGED <<stack, hint_count, frameVars, handleVars>>

EndChar ==
    /\ pc = "loop"
    /\ \E b0 \in {read_u8(table, reader)} : b0.ok /\ b0.val = 14 /\ Finish(b0.rd)

\* read_u8 fails: the CharString is exhausted.
EndOfCharString ==
    /\ pc = "loop"
    /\ \E b0 \in {read_u8(table, reader)} : ~b0.ok /\ Finish(reader)

\* The hints a stem operator (and hintmask) counts: a pair of operands each.
StemHints(s) == s.size \div 2

\* The hints cntrmask counts before it sizes the mask.
CntrMaskHints(s) == 0

\* hstem, hstemhm, vstem, vstemhm
Stem(codes) ==
    /\ pc = "loop"
    /\ \E b0 \in {read_u8(table, reader)} :
         /\ b0.ok /\ b0.val \in codes
         /\ reader' = b0.rd
    /\ hint_count' = hint_count + StemHints(stack)
    /\ stack' = clear(stack)
    /\ Continue
    /\ UNCHANGED <<frameVars, penVars, handleVars>>

HStem == Stem({1, 18})

VStem == Stem({3, 23})

\* hintmask and cntrmask: count added hints, then skip the mask.
Mask(code, added) ==
    /\ pc = "loop"
    /\ \E b0 \in {read_u8(table, reader)} :
         /\ b0.ok /\ b0.val = code
         /\ \E j \in {jump(b0.rd, HintByteCount(hint_count + added))} :
              /\ reader' = j.rd
              /\ IF j.ok THEN Continue ELSE Return("UnexpectedEof")
    /\ hint_count' = hint_count + added
    /\ stack' = clear(stack)
    /\ UNCHANGED <<frameVars, penVars, handleVars>>

HintMask == Mask(19, StemHints(stack))

CntrMask == Mask(20, CntrMaskHints(stack))

\* The escape: the sub-code is read, then the operator is refused.
Escape ==
    /\ pc = "loop"
    /\ \E b0 \in {read_u8(table, reader)} :
         /\ b0.ok /\ b0.val = 12
         /\ \E b1 \in {read_u8(table, b0.rd)} :
              /\ reader' = b1.rd
              /\ IF b1.ok THEN Return("CffUnimplementedOperator") /\ stack' = clear(stack)
                 ELSE Return("UnexpectedEof") /\ stack' = stack
    /\ UNCHANGED <<hint_count, frameVars, penVars, handleVars>>

ImplementedOperators == {1, 3, 4, 5, 6, 7, 8, 12, 14} \cup (18..27) \cup {30, 31}

\* The default branch.
Unimplemented ==
    /\ pc = "loop"
    /\ \E b0 \in {read_u8(table, reader)} :
         /\ b0.ok /\ ~IsOperandToken(b0.val) /\ b0.val \notin ImplementedOperators
         /\ reader' = b0.rd
    /\ stack' = clear(stack)
    /\ Return("CffUnimplementedOperator")
    /\ UNCHANGED <<hint_count, frameVars, penVars, handleVars>>

\* What glyph_bounds returns once its for_each_point has: try!, then Ok(bounds).
BoundsOutcome(r) == r

GlyphBoundsReturn ==
    /\ pc = "returned"
    /\ query = "glyph_bounds"
    /\ bounds_result' = BoundsOutcome(result)
    /\ pc' = "done"
    /\ UNCHANGED <<glyph_id, query, reader, stack, hint_count, result, penVars, handleVars>>

Next ==
    \/ New
    \/ \E g \in 0..MaxGlyph : ForEachPoint(g)
    \/ \E g \in 0..MaxGlyph : GlyphBounds(g)
    \/ PushOperand
    \/ VMoveTo
    \/ RLineTo
    \/ HLineTo
    \/ VLineTo
    \/ RRCurveTo
    \/ RCurveLine
    \/ RLineCurve
    \/ VHCurveTo
    \/ HVCurveTo
    \/ VVCurveTo
    \/ HHCurveTo
    \/ RMoveTo
    \/ HMoveTo
    \/ EndChar
    \/ EndOfCharString
    \/ HStem
    \/ VStem
    \/ HintMask
    \/ CntrMask
    \/ Escape
    \/ Unimplemented
    \/ GlyphBoundsReturn

Spec == Init /\ [][Next]_vars

\* A call that has started keeps running: its code is sequential and none of
\* its steps waits for anything.
SpecLive == Init /\ [][Next]_vars /\ WF_vars(Next)


(***************************************************************************)
(* Several queries on one handle.  `&self` is a shared borrow of a Copy    *)
(* struct: when a query has returned, the caller may make another.         *)
(***************************************************************************)
MaxCalls == 2

\* Every path operator once, then an escaped operator, which is refused.
PathProgram ==
    <<140, 141, 21, 140, 141, 5, 140, 6, 140, 7>>
    \o Operands(6) \o <<8>> \o Operands(8) \o <<24>> \o Operands(8) \o <<25>>
    \o Operands(4) \o <<30>> \o Operands(4) \o <<31>>
    \o Operands(4) \o <<26>> \o Operands(4) \o <<27>>
    \o <<140, 4, 140, 22, 12, 0>>

\* The hint operators, a move, then an operator that is not implemented.
HintProgram ==
    <<140, 141, 1, 140, 141, 3, 140, 141, 19, 0, 20, 0, 140, 141, 21, 140, 6, 29>>

\* A malformed glyph next to a sound one.
CallTables ==
    { PlainTable \o MkIndex(<<bad, good>>) :
        bad \in {PathProgram, HintProgram},
        good \in {UnitSquare, <<149, 159, 21, 140, 6>>} }

InitCalls ==
    /\ table \in CallTables
    /\ overflow_checks \in BOOLEAN
    /\ pc = "new"
    /\ char_strings = 0
    /\ new_result = "none"
    /\ reader = WholeTable(table)
    /\ found = NoFound
    /\ IdleQuery

\* What the caller of a query has got.
Outcome ==
    [query |-> query, glyph_id |-> glyph_id, result |-> result, points |-> points,
     bounds_result |-> bounds_result, bounds |-> bounds]

\* The running query is over: for_each_point has returned to its caller, or
\* glyph_bounds has.
CallOver ==
    \/ pc = "returned" /\ query = "for_each_point"
    \/ pc = "done"

\* The caller takes the outcome of a query that did not panic and is free to
\* make the next one; the locals of the query are left as they were.
Again ==
    /\ CallOver
    /\ result # "panic"
    /\ Cardinality(history \cup {Outcome}) <= MaxCalls
    /\ history' = history \cup {Outcome}
    /\ pc' = "ready"
    /\ UNCHANGED <<table, overflow_checks, char_strings, new_result, found, reader>>
    /\ UNCHANGED <<glyph_id, query, stack, pos, start, index_in_contour, hint_count,
                   points, bounds, result, bounds_result>>

NextCalls ==
    \/ Next
    \/ Again

SpecCalls == InitCalls /\ [][NextCalls]_vars

(***************************************************************************)
(* The two scanners on the same bytes: a glyph's record is handed to       *)
(* get_integer_in_dict as a DICT and to for_each_point as a CharString.    *)
(***************************************************************************)
\* The bytes the multi-byte tokens are tried with.
EdgeBytes == {0, 1, 127, 128, 254, 255}

Words == { <<w[1], w[2], w[3], w[4]>> : w \in [1..4 -> {0, 1, 128, 255}] }

\* One operand token of each encoding.
OperandTokens ==
    { <<b0>> : b0 \in 32..246 }
    \cup { <<b0, b1>> : b0 \in 247..254, b1 \in 0..255 }
    \cup { <<28, hi, lo>> : hi \in EdgeBytes, lo \in 0..255 }
    \cup { <<28, 1, 44>> }
    \cup { <<b0>> \o w : b0 \in {29, 255}, w \in Words }

\* An operand, a real number and operators around the requested one.
DictExamples ==
    { <<154, 30, 31, 17>>, <<154, 30, 10, 31, 17>>, <<30, 31, 154, 17>>,
      <<154, 12, 17, 17>>, <<154, 16, 155, 17>>, <<154, 17, 155, 17>>,
      <<154, 155, 17>>, <<154, 12, 0, 17>>, <<154, 17, 12>> }

TokenPrograms ==
    { tok \o <<CharStringsOperator>> : tok \in OperandTokens }
    \cup SeqsUpTo(DictAlphabet, MaxDictLen)
    \cup DictExamples

TokenTables == { PlainTable \o MkIndex(<<cs>>) : cs \in TokenPrograms }

InitTokens ==
    /\ table \in TokenTables
    /\ overflow_checks \in BOOLEAN
    /\ pc = "new"
    /\ char_strings = 0
    /\ new_result = "none"
    /\ reader = WholeTable(table)
    /\ found = NoFound
    /\ IdleQuery

\* A call of get_integer_in_dict on the record of glyph 0.
DictToken ==
    /\ pc = "ready"
    /\ found = NoFound
    /\ \E c \in {locate(table, char_strings, 0, overflow_checks)} :
         /\ c.err = "none"
         /\ \E f \in {get_integer_in_dict(table, c.rd, CharStringsOperator)} :
              /\ found' = [index |-> CharStringsOperator, err |-> f.err,
                           some |-> f.some, val |-> f.val]
              /\ reader' = f.rd
    /\ pc' = "ready"
    /\ UNCHANGED <<table, overflow_checks, char_strings, new_result, history>>
    /\ UNCHANGED queryVars

NextTokens ==
    \/ New
    \/ DictToken
    \/ ForEachPoint(0)
    \/ PushOperand
    \/ Unimplemented

SpecTokens == InitTokens /\ [][NextTokens]_vars

(***************************************************************************)
(* Two glyphs that differ in the operands of their first operators only:   *)
(* hmoveto a, vmoveto d, rmoveto (Pen.x - a) (Pen.y - d) bring the pen to  *)
(* Pen whatever a and d are, and leave different values in the slots of    *)
(* the stack; then the same tokens follow in both.                         *)
(***************************************************************************)
\* Where the three movetos leave the pen.
Pen == [x |-> 3, y |-> 4]

MovesToPen(split) ==
    <<139 + split[1], 22, 139 + split[2], 4,
      139 + Pen.x - split[1], 139 + Pen.y - split[2], 21>>

\* The tokens after the pen is set: the movetos with no operand and with
\* one, and operators with the operands they are written for.
Laters ==
    { <<21>>, <<22>>, <<4>>, <<140, 21>>,
      <<140, 141, 21, 14>>, <<140, 141, 5>>, <<140, 6, 14>> }

PairTables ==
    { PlainTable \o MkIndex(<<MovesToPen(s1) \o later, MovesToPen(s2) \o later>>) :
        s1 \in (0..1) \X (0..1), s2 \in (0..1) \X (0..1), later \in Laters }

InitPairs ==
    /\ table \in PairTables
    /\ overflow_checks \in BOOLEAN
    /\ pc = "new"
    /\ char_strings = 0
    /\ new_result = "none"
    /\ reader = WholeTable(table)
    /\ found = NoFound
    /\ IdleQuery

NextPairs ==
    \/ New
    \/ \E g \in 0..1 : ForEachPoint(g)
    \/ PushOperand
    \/ VMoveTo
    \/ RLineTo
    \/ HLineTo
    \/ RMoveTo
    \/ HMoveTo
    \/ EndChar
    \/ EndOfCharString
    \/ Again

SpecPairs == InitPairs /\ [][NextPairs]_vars

(***************************************************************************)
(* The INDEX layout as the format documents it, read off the table on its  *)
(* own: these are what the properties below compare the program with.      *)
(* p is the 0-based position of the INDEX in the table.                    *)
(***************************************************************************)
RefByte(o) == table[o + 1]

RefHas(p, n) == p >= 0 /\ p + n <= Len(table)

RefCount(p) == RefByte(p) * 256 + RefByte(p + 1)

RefOffSize(p) == RefByte(p + 2)

\* The big-endian value of the n bytes at o; a value of 2^16 or more is left
\* at 2^16 or more, which no offset into these tables is.
RECURSIVE RefBE(_, _)
RefBE(o, n) ==
    IF n = 0 THEN 0
    ELSE Min(RefBE(o, n - 1), 65536) * 256 + RefByte(o + n - 1)

\* The k-th entry (k in 0..count) of the offset array.
RefOffset(p, k) == RefBE(p + 3 + k * RefOffSize(p), RefOffSize(p))

\* Where the data area starts.
RefData(p) == p + 3 + RefOffSize(p) * (RefCount(p) + 1)

\* Where record k starts (and record k - 1 ends).
RefRecord(p, k) == RefData(p) + RefOffset(p, k) - 1

\* A non-empty INDEX whose offsets are 1-based, non-decreasing and inside
\* the table.
RefWellFormed(p) ==
    /\ RefHas(p, 3)
    /\ RefCount(p) >= 1
    /\ RefOffSize(p) \in 1..4
    /\ RefHas(p, 3 + RefOffSize(p) * (RefCount(p) + 1))
    /\ \A k \in 0..RefCount(p) : RefOffset(p, k) >= 1
    /\ \A k \in 0..(RefCount(p) - 1) : RefOffset(p, k) <= RefOffset(p, k + 1)
    /\ RefRecord(p, RefCount(p)) <= Len(table)

\* An INDEX with no records is its two count bytes.
RefEmpty(p) == RefHas(p, 2) /\ RefCount(p) = 0

\* The first byte after the INDEX.
RefEnd(p) == IF RefCount(p) = 0 THEN p + 2 ELSE RefRecord(p, RefCount(p))

\* for_each_point has returned or unwound.
Returned == pc \in {"returned", "done"}

(***************************************************************************)
(* C1 (as stated): whenever glyph_id is at or past the record count of the *)
(* CharStrings INDEX, for_each_point returns the end-of-data error and the *)
(* sink receives no point, whatever else the table holds.                  *)
(***************************************************************************)
C1_PastCountIsEof ==
    (Returned /\ RefHas(char_strings, 2) /\ glyph_id >= RefCount(char_strings))
        => (result = "UnexpectedEof" /\ points = <<>>)

(***************************************************************************)
(* C1 (amended): whenever glyph_id is at or past the record count of the   *)
(* CharStrings INDEX, for_each_point returns an error and the sink         *)
(* receives no point; the error is the end-of-data error, except that an   *)
(* INDEX with records whose offset size is outside 1..4 may give           *)
(* CffBadOffset; it never returns Ok and never panics.                     *)
(***************************************************************************)
C1_PastCountIsError ==
    (Returned /\ RefHas(char_strings, 2) /\ glyph_id >= RefCount(char_strings))
        => /\ points = <<>>
           /\ \/ result = "UnexpectedEof"
              \/ /\ result = "CffBadOffset"
                 /\ RefCount(char_strings) >= 1
                 /\ RefHas(char_strings, 3)
                 /\ RefOffSize(char_strings) \notin 1..4

C1_Witness ==
    /\ pc = "returned"
    /\ RefWellFormed(char_strings)
    /\ glyph_id = RefCount(char_strings)
    /\ RefEnd(char_strings) < Len(table)
    /\ result = "UnexpectedEof"
    /\ points = <<>>

(***************************************************************************)
(* C2: when the CharStrings INDEX gives the requested glyph a record       *)
(* longer than the bytes left in the table after the record's start,       *)
(* for_each_point returns the end-of-data error (it does not panic).       *)
(***************************************************************************)
C2_LongRecordIsEof ==
    (/\ Returned
     /\ RefHas(char_strings, 3)
     /\ glyph_id < RefCount(char_strings)
     /\ RefOffSize(char_strings) \in 1..4
     /\ RefHas(char_strings, 3 + RefOffSize(char_strings) * (RefCount(char_strings) + 1))
     /\ RefOffset(char_strings, glyph_id) >= 1
     /\ RefOffset(char_strings, glyph_id) <= RefOffset(char_strings, glyph_id + 1)
     /\ RefRecord(char_strings, glyph_id) <= Len(table)
     /\ RefRecord(char_strings, glyph_id + 1) > Len(table))
        => result = "UnexpectedEof"

(***************************************************************************)
(* C3: on a well-formed INDEX, find_in_index(i) with i below the count     *)
(* returns Some(offsets[i+1] - offsets[i]) and leaves the cursor on the    *)
(* first byte of record i, at data start + offsets[i] - 1; with i at or    *)
(* past the count it returns None.  It reports no error in either case.    *)
(***************************************************************************)
C3_FindInIndex ==
    (pc = "find_done" /\ RefWellFormed(Len(IndexPad)))
        => /\ found.err = "none"
           /\ IF found.index < RefCount(Len(IndexPad))
              THEN /\ found.some
                   /\ found.val = RefOffset(Len(IndexPad), found.index + 1)
                                    - RefOffset(Len(IndexPad), found.index)
                   /\ reader.pos = RefRecord(Len(IndexPad), found.index)
              ELSE ~found.some

C3_Witness ==
    /\ pc = "find_done"
    /\ RefWellFormed(Len(IndexPad))
    /\ RefCount(Len(IndexPad)) = 2
    /\ found.index = 1
    /\ found.some
    /\ found.val = 2
    /\ reader.pos = RefRecord(Len(IndexPad), 1)
    /\ RefOffset(Len(IndexPad), 1) > 1

(***************************************************************************)
(* C4: skip_index leaves the cursor on the first byte after a well-formed  *)
(* INDEX, at data start + offsets[count] - 1; an INDEX whose count is 0 is *)
(* two bytes long, and skip_index leaves the cursor right after them and   *)
(* reports no error.                                                       *)
(***************************************************************************)
C4_SkipIndex ==
    pc = "skip_done"
        => /\ RefWellFormed(Len(IndexPad))
                => /\ found.err = "none"
                   /\ reader.pos = RefRecord(Len(IndexPad), RefCount(Len(IndexPad)))
           /\ RefEmpty(Len(IndexPad))
                => /\ found.err = "none"
                   /\ ~found.some
                   /\ reader.pos = Len(IndexPad) + 2

C4_Witness ==
    /\ pc = "skip_done"
    /\ RefWellFormed(Len(IndexPad))
    /\ RefCount(Len(IndexPad)) = 2
    /\ RefOffset(Len(IndexPad), 2) > RefOffset(Len(IndexPad), 0)
    /\ reader.pos = RefEnd(Len(IndexPad))
    /\ reader.pos < Len(table)
    /\ found.err = "none"


(***************************************************************************)
(* The table's layout from the header on, as the format documents it.      *)
(***************************************************************************)
\* A version 1.0 header whose declared size covers its four fields.
RefHeader ==
    /\ Len(table) >= 4
    /\ RefByte(0) = 1
    /\ RefByte(1) = 0
    /\ RefByte(2) >= 4
    /\ RefByte(2) <= Len(table)

RefNameIndex == RefByte(2)

RefIndexOk(p) == RefEmpty(p) \/ RefWellFormed(p)

RefTopDictIndex == RefEnd(RefNameIndex)

\* The number of bytes of the real-number operand whose nibbles start at o:
\* up to and including the first byte with an end nibble.
RECURSIVE RefRealLen(_, _)
RefRealLen(o, end) ==
    IF o >= end THEN 0
    ELSE IF RefByte(o) \div 16 = 15 \/ RefByte(o) % 16 = 15 THEN 1
    ELSE 1 + RefRealLen(o + 1, end)

\* A walk over the tokens of the DICT in table[o..end): "absent" when the
\* one-byte operator op is not among them, else "operand" or "bare" as its
\* first occurrence does or does not follow an integer operand directly.
RECURSIVE RefFirstOperator(_, _, _, _)
RefFirstOperator(o, end, op, after_integer) ==
    IF o >= end THEN "absent"
    ELSE IF RefByte(o) \in 32..246 THEN RefFirstOperator(o + 1, end, op, TRUE)
    ELSE IF RefByte(o) \in 247..254 THEN RefFirstOperator(o + 2, end, op, TRUE)
    ELSE IF RefByte(o) = 28 THEN RefFirstOperator(o + 3, end, op, TRUE)
    ELSE IF RefByte(o) = 29 THEN RefFirstOperator(o + 5, end, op, TRUE)
    ELSE IF RefByte(o) = 30
         THEN RefFirstOperator(o + 1 + RefRealLen(o + 1, end), end, op, FALSE)
    ELSE IF RefByte(o) = 12 THEN RefFirstOperator(o + 2, end, op, FALSE)
    ELSE IF RefByte(o) = op
         THEN (IF after_integer THEN "operand" ELSE "bare")
    ELSE RefFirstOperator(o + 1, end, op, FALSE)

\* How operator 17 stands in entry 0 of the Top DICT INDEX.
RefCharStringsInTopDict ==
    RefFirstOperator(RefRecord(RefTopDictIndex, 0), RefRecord(RefTopDictIndex, 1),
                     CharStringsOperator, FALSE)

RefLayout ==
    /\ RefHeader
    /\ RefIndexOk(RefNameIndex)
    /\ RefWellFormed(RefTopDictIndex)

(***************************************************************************)
(* C5: new on a table with a valid 1.0 header, a Name INDEX and a Top DICT *)
(* INDEX whose entry 0 holds no operator 17 fails with                     *)
(* CffIntegerNotFound, whatever bytes follow that record.                  *)
(***************************************************************************)
C5_AbsentIsNotFound ==
    (pc # "new" /\ RefLayout /\ RefCharStringsInTopDict = "absent")
        => new_result = "CffIntegerNotFound"

(***************************************************************************)
(* C6: new succeeds on every table whose header, Name INDEX, Top DICT      *)
(* INDEX (entry 0 holding an integer operand followed by operator 17) and  *)
(* String INDEX are well-formed, wherever operator 17 stands in the Top    *)
(* DICT and however many bytes of the Top DICT INDEX follow it.            *)
(***************************************************************************)
C6_WellFormedIsOk ==
    (/\ pc # "new"
     /\ RefLayout
     /\ RefCharStringsInTopDict = "operand"
     /\ RefIndexOk(RefEnd(RefTopDictIndex)))
        => new_result = "Ok"


(***************************************************************************)
(* The CharString the interpreter is on, read off the table on its own.    *)
(***************************************************************************)
\* The byte the loop reads next, or -1 at the end of the CharString.
RefNextByte == IF reader.pos < reader.end THEN RefByte(reader.pos) ELSE -1

\* The next token is an operand with all of its bytes inside the CharString.
RefOperandNext ==
    \/ RefNextByte \in 32..246
    \/ RefNextByte \in 247..254 /\ reader.pos + 2 <= reader.end
    \/ RefNextByte = 28 /\ reader.pos + 3 <= reader.end
    \/ RefNextByte = 255 /\ reader.pos + 5 <= reader.end

\* The table whose CharStrings INDEX holds the one program cs.
RefGlyphTable(cs) == PlainTable \o MkIndex(<<cs>>)

(***************************************************************************)
(* C7: in every state of the interpreter the evaluation stack holds at     *)
(* most 48 values, and an operand token read while it holds 48 makes       *)
(* for_each_point return CffStackOverflow with the stack as it was and no  *)
(* point emitted for it.                                                   *)
(***************************************************************************)
C7_StackOverflow ==
    /\ [](stack.size <= StackCapacity)
    /\ [][(pc = "loop" /\ stack.size = StackCapacity /\ RefOperandNext)
             => /\ pc' = "returned"
                /\ result' = "CffStackOverflow"
                /\ stack' = stack
                /\ points' = points]_vars

C7_Witness ==
    /\ pc = "returned"
    /\ result = "CffStackOverflow"
    /\ stack.size = StackCapacity
    /\ points = <<>>
    /\ reader.pos < reader.end

(***************************************************************************)
(* The points of a finished run, counted by contour.                       *)
(***************************************************************************)
\* The place in points[1..k] of the last point that opens a contour.
RefContourOpen(k) ==
    CHOOSE j \in 1..k :
        /\ points[j].index_in_contour = 0
        /\ \A i \in (j + 1)..k : points[i].index_in_contour # 0

(***************************************************************************)
(* C8: when for_each_point returns Ok having emitted a point, the last     *)
(* point the sink receives is an OnCurve point at the start of the contour *)
(* whose index_in_contour is the number of points the contour already has; *)
(* operands 10 20, rmoveto, endchar deliver (10,20) with index 0 and then  *)
(* (10,20) with index 1; a run that emits no point delivers no closing     *)
(* point.                                                                  *)
(***************************************************************************)
C8_ClosingPoint ==
    (Returned /\ result = "Ok")
        => /\ (index_in_contour = 0) = (points = <<>>)
           /\ points # <<>>
                => /\ Len(points) >= 2
                   /\ points[Len(points)].kind = "OnCurve"
                   /\ points[Len(points)].position = start
                   /\ points[Len(points)].index_in_contour
                        = Len(points) - RefContourOpen(Len(points) - 1)
                   /\ RefContourOpen(Len(points) - 1) > 1
                        => start = points[RefContourOpen(Len(points) - 1)].position
                   /\ RefContourOpen(Len(points) - 1) = 1
                        => start \in {Origin, points[1].position}
           /\ (table = RefGlyphTable(MoveOnly) /\ glyph_id = 0)
                => points = <<Point([x |-> 10, y |-> 20], 0, "OnCurve"),
                              Point([x |-> 10, y |-> 20], 1, "OnCurve")>>

C8_Witness ==
    /\ pc = "returned"
    /\ result = "Ok"
    /\ Len(points) >= 5
    /\ RefContourOpen(Len(points) - 1) > 1
    /\ points[Len(points)].index_in_contour >= 2
    /\ points[Len(points)].position = start
    /\ start # pos

(***************************************************************************)
(* The curves the operands on the stack describe, from the pen.            *)
(***************************************************************************)
\* The sum of the operands at from, from + 2, ... below to.
RECURSIVE RefSumArgs(_, _)
RefSumArgs(from, to) ==
    IF from >= to THEN 0 ELSE stack.array[from] + RefSumArgs(from + 2, to)

RefCurveKinds == <<"FirstCubicControl", "SecondCubicControl", "OnCurve">>

\* The j-th point (j from 1): the pen plus the first j pairs of deltas.
RefCurvePoint(j) ==
    Point([x |-> pos.x + RefSumArgs(0, 2 * j), y |-> pos.y + RefSumArgs(1, 2 * j)],
          index_in_contour + j - 1,
          RefCurveKinds[((j - 1) % 3) + 1])

\* The loop is about to run rrcurveto on 6k operands.
RefAtRRCurveTo ==
    pc = "loop" /\ RefNextByte = 8 /\ stack.size > 0 /\ stack.size % 6 = 0

\* rrcurveto emits the points of the curves, one after the other.
RefCurvesEmitted ==
    /\ pc' = "loop"
    /\ points' = points \o [j \in 1..(stack.size \div 2) |-> RefCurvePoint(j)]
    /\ pos' = RefCurvePoint(stack.size \div 2).position
    /\ index_in_contour' = index_in_contour + stack.size \div 2

\* The operands 0 0 0 100 100 100 on the stack of a run that has the pen at
\* (0,0) and has emitted nothing.
RefExampleCurve ==
    /\ pos = Origin
    /\ points = <<>>
    /\ index_in_contour = 0
    /\ stack.size = 6
    /\ \A i \in 0..5 : stack.array[i] = <<0, 0, 0, 100, 100, 100>>[i + 1]

(***************************************************************************)
(* C9 (as stated): rrcurveto with 6k operands emits, for each six deltas   *)
(* in turn, a FirstCubicControl point at the pen plus the first pair, a    *)
(* SecondCubicControl point at that plus the second pair and an OnCurve    *)
(* point at that plus the third pair, with consecutive index_in_contour    *)
(* values, and leaves the pen on the last OnCurve point and the contour    *)
(* index 3k further; operands 0 0 0 100 100 100 from pen (0,0) give        *)
(* FirstCubicControl (0,0), SecondCubicControl (0,100), OnCurve (100,100). *)
(***************************************************************************)
C9_RRCurveToAsStated ==
    [][RefAtRRCurveTo
          => /\ RefCurvesEmitted
             /\ RefExampleCurve
                  => points' = <<Point([x |-> 0, y |-> 0], 0, "FirstCubicControl"),
                                 Point([x |-> 0, y |-> 100], 1, "SecondCubicControl"),
                                 Point([x |-> 100, y |-> 100], 2, "OnCurve")>>]_vars

(***************************************************************************)
(* C9 (amended): the same rule for each six deltas, the pen and the        *)
(* contour index; operands 0 0 0 100 100 100 from pen (0,0) give           *)
(* FirstCubicControl (0,0), SecondCubicControl (0,100), OnCurve (100,200), *)
(* the third pair being added to the second control point.                 *)
(***************************************************************************)
C9_RRCurveTo ==
    [][RefAtRRCurveTo
          => /\ RefCurvesEmitted
             /\ RefExampleCurve
                  => points' = <<Point([x |-> 0, y |-> 0], 0, "FirstCubicControl"),
                                 Point([x |-> 0, y |-> 100], 1, "SecondCubicControl"),
                                 Point([x |-> 100, y |-> 200], 2, "OnCurve")>>]_vars

C9_Witness ==
    /\ pc = "loop"
    /\ table = RefGlyphTable(OneCurve)
    /\ reader.pos = reader.end
    /\ points = <<Point([x |-> 0, y |-> 0], 0, "FirstCubicControl"),
                  Point([x |-> 0, y |-> 100], 1, "SecondCubicControl"),
                  Point([x |-> 100, y |-> 200], 2, "OnCurve")>>
    /\ pos = [x |-> 100, y |-> 200]
    /\ index_in_contour = 3

(***************************************************************************)
(* C10: glyph_bounds returns Ok exactly when the point query it runs       *)
(* returns Ok, and then the box is the minimum (left, bottom) and maximum  *)
(* (right, top) over the default box and the positions of all the points   *)
(* emitted for the glyph; the unit square gives left 0, bottom 0, right 1, *)
(* top 1.                                                                  *)
(***************************************************************************)
RefLeast(S) == CHOOSE m \in S : \A e \in S : m <= e

RefGreatest(S) == CHOOSE m \in S : \A e \in S : m >= e

RefXs == { points[i].position.x : i \in 1..Len(points) }

RefYs == { points[i].position.y : i \in 1..Len(points) }

C10_GlyphBounds ==
    pc = "done"
        => /\ (bounds_result = "Ok") = (result = "Ok")
           /\ bounds_result = result
           /\ result = "Ok"
                => /\ bounds.left = RefLeast(RefXs \cup {GlyphBoundsDefault.left})
                   /\ bounds.bottom = RefLeast(RefYs \cup {GlyphBoundsDefault.bottom})
                   /\ bounds.right = RefGreatest(RefXs \cup {GlyphBoundsDefault.right})
                   /\ bounds.top = RefGreatest(RefYs \cup {GlyphBoundsDefault.top})
           /\ (table = RefGlyphTable(UnitSquare) /\ glyph_id = 0)
                => /\ bounds_result = "Ok"
                   /\ bounds = [left |-> 0, bottom |-> 0, right |-> 1, top |-> 1]

C10_Witness ==
    /\ pc = "done"
    /\ table = RefGlyphTable(UnitSquare)
    /\ glyph_id = 0
    /\ bounds_result = "Ok"
    /\ Len(points) = 5
    /\ bounds = [left |-> 0, bottom |-> 0, right |-> 1, top |-> 1]


(***************************************************************************)
(* C13: for_each_point terminates on every CharString: each iteration of   *)
(* the interpreter loop that does not return leaves fewer unread bytes of  *)
(* the CharString than it found, the mask bytes hintmask and cntrmask skip *)
(* included, and a call in the loop eventually returns Ok or an error.     *)
(***************************************************************************)
RefUnread(r) == r.end - r.pos

RefImplementedOpcodes == {1, 3, 4, 5, 6, 7, 8, 14} \cup (18..27) \cup {30, 31}

RefUnimplementedNext ==
    /\ RefNextByte \in 0..31
    /\ RefNextByte # 28
    /\ RefNextByte \notin RefImplementedOpcodes

C15_UnimplementedAborts ==
    [][(pc = "loop" /\ RefUnimplementedNext)
          => /\ pc' = "returned"
             /\ result' = "CffUnimplementedOperator"
             /\ points' = points]_vars

(***************************************************************************)
(* C19: cntrmask (20) does the accounting hintmask (19) does: with n       *)
(* operands on the stack either one adds n div 2 to the hint count and     *)
(* then skips the bytes of a mask of that many hints, so that a 20 in the  *)
(* place of a 19 skips the same bytes and leaves the same hint count.      *)
(***************************************************************************)
C19_MasksCountAlike ==
    [][(pc = "loop" /\ RefNextByte \in {19, 20})
          => /\ hint_count' = hint_count + stack.size \div 2
             /\ pc' = "loop"
                  => reader'.pos = reader.pos + 1 + (hint_count' + 7) \div 8]_vars

(***************************************************************************)
(* C20: the escape opcode 12 makes for_each_point return the               *)
(* unimplemented-operator error whether or not a sub-code byte follows it; *)
(* a CharString that ends in 12 gives that error, not the end-of-data one. *)
(***************************************************************************)
C20_EscapeIsUnimplemented ==
    [][(pc = "loop" /\ RefNextByte = 12)
          => /\ pc' = "returned"
             /\ result' = "CffUnimplementedOperator"]_vars


(***************************************************************************)
(* The integer encodings, as the format documents them.                    *)
(***************************************************************************)
RefSigned16(v) == IF v >= 32768 THEN v - 65536 ELSE v

\* The bytes of the token whose lead byte is b0.
RefOperandLen(b0) ==
    IF b0 \in 32..246 THEN 1
    ELSE IF b0 \in 247..254 THEN 2
    ELSE IF b0 = 28 THEN 3
    ELSE 5

\* The value of the one-, two- or three-byte operand token at o.
RefOperandValue(o) ==
    IF RefByte(o) \in 32..246 THEN RefByte(o) - 139
    ELSE IF RefByte(o) \in 247..250
         THEN (RefByte(o) - 247) * 256 + RefByte(o + 1) + 108
    ELSE IF RefByte(o) \in 251..254
         THEN 0 - (RefByte(o) - 251) * 256 - RefByte(o + 1) - 108
    ELSE RefSigned16(RefByte(o + 1) * 256 + RefByte(o + 2))

\* The integer part of the 16.16 number in the four bytes at o: its upper
\* half, signed.
RefIntegerPart(o) == RefSigned16(RefByte(o) * 256 + RefByte(o + 1))

\* The loop is about to read a whole operand token and the stack has room.
RefAtOperand == pc = "loop" /\ stack.size < StackCapacity /\ RefOperandNext

\* The step pushes v and reads the token's bytes.
RefPushed(v) ==
    /\ pc' = "loop"
    /\ stack'.size = stack.size + 1
    /\ stack'.array[stack.size] = v
    /\ reader'.pos = reader.pos + RefOperandLen(RefNextByte)

RefBytesAt(o, bytes) == \A i \in 1..Len(bytes) : RefByte(o + i - 1) = bytes[i]

(***************************************************************************)
(* C11: in a CharString a token b0 in 32..246 pushes b0 - 139; b0 in       *)
(* 247..250 and b1 push (b0 - 247) * 256 + b1 + 108; b0 in 251..254 and b1 *)
(* push -(b0 - 251) * 256 - b1 - 108; 28 hi lo pushes the signed 16-bit    *)
(* value hi lo.  Byte 139 pushes 0, bytes 247 0 push 108, bytes 251 0 push *)
(* -108 and bytes 28 1 44 push 300.                                        *)
(***************************************************************************)
C11_OperandTokens ==
    [][(RefAtOperand /\ RefNextByte # 255)
          => /\ RefPushed(RefOperandValue(reader.pos))
             /\ RefBytesAt(reader.pos, <<139>>) => stack'.array[stack.size] = 0
             /\ RefBytesAt(reader.pos, <<247, 0>>) => stack'.array[stack.size] = 108
             /\ RefBytesAt(reader.pos, <<251, 0>>) => stack'.array[stack.size] = -108
             /\ RefBytesAt(reader.pos, <<28, 1, 44>>) => stack'.array[stack.size] = 300]_vars

C11_Witness ==
    /\ pc = "loop"
    /\ table = RefGlyphTable(<<254, 255, 17>>)
    /\ stack.size = 1
    /\ stack.array[0] = -1131
    /\ reader.pos = reader.end - 1

(***************************************************************************)
(* C12 (as stated): token 255 and four bytes push the integer part         *)
(* (arithmetic shift right by 16) of the signed big-endian 32-bit value of *)
(* those bytes, and bytes 255 0 0 1 0 push 1.                              *)
(***************************************************************************)
C12_FixedAsStated ==
    [][(RefAtOperand /\ RefNextByte = 255)
          => /\ RefPushed(RefIntegerPart(reader.pos + 1))
             /\ RefBytesAt(reader.pos, <<255, 0, 0, 1, 0>>)
                  => stack'.array[stack.size] = 1]_vars

(***************************************************************************)
(* C12 (amended): token 255 and four bytes push the integer part           *)
(* (arithmetic shift right by 16) of the signed big-endian 32-bit value of *)
(* those bytes; bytes 255 0 0 1 0, the value 256, push 0, and bytes        *)
(* 255 0 1 0 0, the value 65536, push 1.                                   *)
(***************************************************************************)
C12_Fixed ==
    [][(RefAtOperand /\ RefNextByte = 255)
          => /\ RefPushed(RefIntegerPart(reader.pos + 1))
             /\ RefBytesAt(reader.pos, <<255, 0, 0, 1, 0>>)
                  => stack'.array[stack.size] = 0
             /\ RefBytesAt(reader.pos, <<255, 0, 1, 0, 0>>)
                  => stack'.array[stack.size] = 1]_vars

C12_Witness ==
    /\ pc = "loop"
    /\ table = RefGlyphTable(<<255, 0, 0, 1, 0, 17>>)
    /\ stack.size = 1
    /\ stack.array[0] = 0
    /\ reader.pos = reader.end - 1


(***************************************************************************)
(* The tokens of a DICT, as the format documents them.                     *)
(***************************************************************************)
RefToken(kind, val) == [kind |-> kind, val |-> val]

\* The bytes after token 30 up to and including the first one whose low
\* nibble is 0xf, or 0 when there is none before end.
RECURSIVE RefRealBytes(_, _)
RefRealBytes(o, end) ==
    IF o >= end THEN 0
    ELSE IF RefByte(o) % 16 = 15 THEN 1
    ELSE IF RefRealBytes(o + 1, end) = 0 THEN 0
    ELSE 1 + RefRealBytes(o + 1, end)

\* The value of the five-byte integer token at o.
RefLongValue(o) ==
    RefSigned16(RefByte(o + 1) * 256 + RefByte(o + 2)) * 65536
        + RefByte(o + 3) * 256 + RefByte(o + 4)

\* The tokens of table[o..end): integers, reals, one-byte operators and
\* escaped operators, and "cut" for a token that end cuts short.
RECURSIVE RefTokens(_, _)
RefTokens(o, end) ==
    IF o >= end THEN <<>>
    ELSE IF RefByte(o) \in (32..254) \cup {28}
         THEN IF o + RefOperandLen(RefByte(o)) > end THEN <<RefToken("cut", 0)>>
              ELSE <<RefToken("integer", RefOperandValue(o))>>
                       \o RefTokens(o + RefOperandLen(RefByte(o)), end)
    ELSE IF RefByte(o) = 29
         THEN IF o + 5 > end THEN <<RefToken("cut", 0)>>
              ELSE <<RefToken("integer", RefLongValue(o))>> \o RefTokens(o + 5, end)
    ELSE IF RefByte(o) = 30
         THEN IF RefRealBytes(o + 1, end) = 0 THEN <<RefToken("cut", 0)>>
              ELSE <<RefToken("real", 0)>>
                       \o RefTokens(o + 1 + RefRealBytes(o + 1, end), end)
    ELSE IF RefByte(o) = 12
         THEN IF o + 2 > end THEN <<RefToken("cut", 0)>>
              ELSE <<RefToken("escaped", RefByte(o + 1))>> \o RefTokens(o + 2, end)
    ELSE <<RefToken("operator", RefByte(o))>> \o RefTokens(o + 1, end)

\* The place in toks of the first one-byte operator op, or 0.
RefFirstAt(toks, op) ==
    IF \E i \in 1..Len(toks) : toks[i] = RefToken("operator", op)
    THEN CHOOSE i \in 1..Len(toks) :
             /\ toks[i] = RefToken("operator", op)
             /\ \A j \in 1..(i - 1) : toks[j] # RefToken("operator", op)
    ELSE 0

\* The record of glyph 0, which the DICT scanner was handed.
RefGlyph0 == RefRecord(char_strings, 0)

RefGlyph0End == RefRecord(char_strings, 1)

RefGlyph0Tokens == RefTokens(RefGlyph0, RefGlyph0End)

\* get_integer_in_dict has been called on the record of glyph 0.
RefScanned == found.index = CharStringsOperator

(***************************************************************************)
(* C16: in get_integer_in_dict a real-number token (30 and the bytes up to *)
(* the first whose low nibble is 0xf) clears the remembered integer: an    *)
(* integer operand, then a real number, then the requested operator give   *)
(* CffIntegerNotFound, not the integer.                                    *)
(***************************************************************************)
C16_RealClearsOperand ==
    RefScanned =>
        \A toks \in {RefGlyph0Tokens} : \A k \in {RefFirstAt(toks, CharStringsOperator)} :
            (k > 2 /\ toks[k - 1].kind = "real" /\ toks[k - 2].kind = "integer")
                => found.err = "CffIntegerNotFound"

RefLead == RefByte(RefGlyph0)

\* The record is one token with a lead byte in leads, then operator 17.
RefOneToken(leads) ==
    /\ RefWellFormed(char_strings)
    /\ RefGlyph0 < RefGlyph0End
    /\ RefLead \in leads
    /\ RefGlyph0End = RefGlyph0 + RefOperandLen(RefLead) + 1
    /\ RefByte(RefGlyph0End - 1) = CharStringsOperator

\* for_each_point has run its first iteration on the record, and no other.
RefFirstTokenRead ==
    /\ query = "for_each_point"
    /\ reader.pos > RefGlyph0
    /\ reader.pos < RefGlyph0End

\* The integers the two scanners decoded are the same.
RefSameInteger(leads) ==
    (RefScanned /\ RefOneToken(leads) /\ RefFirstTokenRead)
        => /\ found.err = "none"
           /\ pc = "loop"
           /\ stack.size = 1
           /\ stack.array[0] = found.val

\* Each scanner reads the bytes of the token (and the DICT scanner the
\* operator after it).
RefSameBytes(leads) ==
    /\ (pc = "ready" /\ ~RefScanned /\ found' # found /\ RefOneToken(leads))
         => reader'.pos = RefGlyph0 + RefOperandLen(RefLead) + 1
    /\ (pc = "loop" /\ reader.pos = RefGlyph0 /\ RefOneToken(leads))
         => reader'.pos = RefGlyph0 + RefOperandLen(RefLead)

\* The lead bytes of the integer tokens of a DICT.
RefDictLeads == (32..254) \cup {28, 29}

(***************************************************************************)
(* C18 (as stated): for every token whose lead byte is 28, 29 or in        *)
(* 32..254 the integer get_integer_in_dict remembers is the integer        *)
(* for_each_point pushes, and both read the same number of bytes.          *)
(***************************************************************************)
C18_DecodeAlikeAsStated ==
    /\ [](RefSameInteger(RefDictLeads))
    /\ [][RefSameBytes(RefDictLeads)]_vars

(***************************************************************************)
(* C18 (amended): for every token whose lead byte is 28 or in 32..254 the  *)
(* integer get_integer_in_dict remembers is the integer for_each_point     *)
(* pushes, and both read the same number of bytes; lead byte 29 is a       *)
(* five-byte integer for get_integer_in_dict only.                         *)
(***************************************************************************)
C18_DecodeAlike ==
    /\ [](RefSameInteger(RefDictLeads \ {29}))
    /\ [][RefSameBytes(RefDictLeads \ {29})]_vars

C18_Witness ==
    /\ RefScanned
    /\ RefOneToken({28})
    /\ RefFirstTokenRead
    /\ RefBytesAt(RefGlyph0, <<28, 128, 0>>)
    /\ found.val = -32768
    /\ stack.array[0] = -32768
    /\ stack.size = 1


(***************************************************************************)
(* C14: a query leaves the handle as it found it: after any queries on a   *)
(* handle, failed ones included, a query gives the result, the points and  *)
(* the box that the same query gave when it was the first on the handle;   *)
(* the stack, the pen, the contour and the hint count of a query are not   *)
(* those of the query before.                                              *)
(***************************************************************************)
\* The outcomes got so far, that of the query that has just returned included.
RefOutcomes == IF CallOver THEN history \cup {Outcome} ELSE history

C14_QueriesIndependent ==
    /\ [](\A a \in RefOutcomes : \A b \in RefOutcomes :
            (a.query = b.query /\ a.glyph_id = b.glyph_id) => a = b)
    /\ [][/\ table' = table
          /\ pc # "new" => char_strings' = char_strings
          /\ (pc = "ready" /\ pc' = "loop")
               => /\ stack'.size = 0
                  /\ pos' = Origin
                  /\ start' = Origin
                  /\ index_in_contour' = 0
                  /\ hint_count' = 0
                  /\ points' = <<>>]_vars

C14_Witness ==
    /\ CallOver
    /\ Outcome \in history
    /\ \E a \in history :
         /\ a.glyph_id # glyph_id
         /\ a.result \in {"CffUnimplementedOperator", "UnexpectedEof"}
         /\ a.points # <<>>
    /\ result = "Ok"
    /\ Len(points) >= 2


(***************************************************************************)
(* The operand counts the path operators are written for.                  *)
(***************************************************************************)
\* The operator the loop reads next finds a count of operands that its
\* operand pattern does not allow.
RefNonConforming ==
    \/ RefNextByte = 24 /\ stack.size < 2
    \/ RefNextByte = 25 /\ stack.size < 6
    \/ RefNextByte = 5 /\ stack.size % 2 = 1
    \/ RefNextByte = 8 /\ stack.size % 6 # 0
    \/ RefNextByte \in {26, 27} /\ (stack.size - (stack.size % 2)) % 4 # 0

\* for_each_point has returned an Err to its caller.
RefReturnedErr == pc = "returned" /\ result \notin {"none", "Ok", "panic"}

(***************************************************************************)
(* C21: a path operator met with a non-conforming operand count            *)
(* (rcurveline with fewer than 2 operands, rlinecurve with fewer than 6,   *)
(* rlineto with an odd count, rrcurveto with a count that is not a         *)
(* multiple of 6, vvcurveto or hhcurveto whose count less the optional     *)
(* leading operand is not a multiple of 4) makes for_each_point return an  *)
(* Err: no subtraction below zero, no index past the end of a chunk.       *)
(***************************************************************************)
C21_NonConformingIsErr ==
    [][(pc = "loop" /\ RefNonConforming) => RefReturnedErr']_vars


(***************************************************************************)
(* The curves vhcurveto (30) and hvcurveto (31) draw from the operands on  *)
(* the stack, in groups of four.                                           *)
(***************************************************************************)
\* The loop is about to run vhcurveto or hvcurveto.
RefAtAlternating == pc = "loop" /\ RefNextByte \in {30, 31}

\* The complete groups of four.
RefGroups == stack.size \div 4

\* Group i (from 0) starts on the vertical axis.
RefStartsVertical(i) == (i % 2 = 0) = (RefNextByte = 30)

\* The end-point component that group i is not given among its four: the
\* trailing operand of a count of 4k + 1 for the last group k - 1, else 0.
RefImplicit(i) ==
    IF stack.size % 4 = 1 /\ i = RefGroups - 1 THEN stack.array[stack.size - 1] ELSE 0

\* The three deltas <<dx, dy>> of group i.
RefGroupDeltas(i) ==
    IF RefStartsVertical(i)
    THEN << <<0, stack.array[4 * i]>>,
            <<stack.array[4 * i + 1], stack.array[4 * i + 2]>>,
            <<stack.array[4 * i + 3], RefImplicit(i)>> >>
    ELSE << <<stack.array[4 * i], 0>>,
            <<stack.array[4 * i + 1], stack.array[4 * i + 2]>>,
            <<RefImplicit(i), stack.array[4 * i + 3]>> >>

\* The j-th delta (j from 1) of the operator, and the sum of the first j on
\* axis c (1 for x, 2 for y).
RefDelta(j) == RefGroupDeltas((j - 1) \div 3)[((j - 1) % 3) + 1]

RECURSIVE RefDeltaSum(_, _)
RefDeltaSum(j, c) == IF j = 0 THEN 0 ELSE RefDelta(j)[c] + RefDeltaSum(j - 1, c)

\* The j-th point of the operator.
RefAlternatingPoint(j) ==
    Point([x |-> pos.x + RefDeltaSum(j, 1), y |-> pos.y + RefDeltaSum(j, 2)],
          index_in_contour + j - 1,
          RefCurveKinds[((j - 1) % 3) + 1])

(***************************************************************************)
(* C22: vhcurveto (30) and hvcurveto (31) emit one curve for each complete *)
(* group of four operands and nothing for what is left of a count of       *)
(* 4k + 2 or 4k + 3.  Group i starts on the opcode's axis when i is even   *)
(* and on the other when i is odd: its first control delta is zero on the  *)
(* other axis, and its end delta has the implicit value on the axis it     *)
(* started on.  The implicit value is 0, but for the last group of a count *)
(* of 4k + 1, where it is the trailing operand.  The pen ends on the last  *)
(* point and the stack is cleared.                                         *)
(***************************************************************************)
C22_AlternatingCurves ==
    [][RefAtAlternating
          => /\ pc' = "loop"
             /\ points' = points \o [j \in 1..(3 * RefGroups) |-> RefAlternatingPoint(j)]
             /\ pos' = [x |-> pos.x + RefDeltaSum(3 * RefGroups, 1),
                        y |-> pos.y + RefDeltaSum(3 * RefGroups, 2)]
             /\ index_in_contour' = index_in_contour + 3 * RefGroups
             /\ stack'.size = 0]_vars

\* vhcurveto on the operands 1 .. 9 has run: two curves, the second one
\* starting horizontal and ending with the trailing 9 as its dx.
C22_Witness ==
    /\ pc = "loop"
    /\ table = RefGlyphTable(Operands(9) \o <<30>>)
    /\ reader.pos = reader.end
    /\ [j \in 1..6 |-> points[j].position]
         = << [x |-> 0, y |-> 1], [x |-> 2, y |-> 4], [x |-> 6, y |-> 4],
              [x |-> 11, y |-> 4], [x |-> 17, y |-> 11], [x |-> 26, y |-> 19] >>
    /\ Len(points) = 6
    /\ pos = [x |-> 26, y |-> 19]
    /\ index_in_contour = 6


(***************************************************************************)
(* What two glyphs of one table give after their first three movetos,      *)
(* which emit five points: the point of hmoveto, and a closing point and   *)
(* the point of each of vmoveto and rmoveto.                               *)
(***************************************************************************)
RefAfterMoves(o) ==
    [result |-> o.result, points |-> SubSeq(o.points, 6, Len(o.points))]

\* The outcome o has the pen set as the two glyphs set it.
RefPenSet(o) ==
    /\ Len(o.points) >= 5
    /\ o.points[5] = Point(Pen, 0, "OnCurve")

(***************************************************************************)
(* C23: the points an operator emits depend only on the pen, the contour   *)
(* state and the operands pushed since the stack was last cleared.  Two    *)
(* CharStrings that differ only in operand values an earlier operator      *)
(* consumed, and that bring the pen to the same position, get the same     *)
(* points and the same result from the tokens that follow; so rmoveto,     *)
(* hmoveto and vmoveto with fewer pending operands than they use do not    *)
(* take their deltas from the slots the earlier operands were left in.     *)
(***************************************************************************)
C23_OperandsOnly ==
    \A a \in RefOutcomes : \A b \in RefOutcomes :
        /\ RefPenSet(a)
        /\ RefPenSet(b)
        /\ RefAfterMoves(a) = RefAfterMoves(b)


(***************************************************************************)
(* The contours in the points of a run, and how the glyph's CharString     *)
(* opens its first one.                                                    *)
(***************************************************************************)
\* Where the CharString of the glyph starts in the table.
RefCharString == RefRecord(char_strings, glyph_id)

\* The first operator at or after o in the CharString, or -1.
RECURSIVE RefFirstOpcode(_)
RefFirstOpcode(o) ==
    IF o >= reader.end THEN -1
    ELSE IF RefByte(o) >= 32 \/ RefByte(o) = 28
    THEN RefFirstOpcode(o + RefOperandLen(RefByte(o)))
    ELSE RefByte(o)

\* The CharString starts with a moveto.
RefOpensWithMove == RefFirstOpcode(RefCharString) \in {4, 21, 22}

\* points[c] is the closing point of a contour: it is not the contour's
\* first point, it is on the curve, and it is where the contour's first
\* point is when a moveto opened the contour.
RefClosing(c) ==
    /\ c >= 2
    /\ points[c].index_in_contour >= 1
    /\ points[c].kind = "OnCurve"
    /\ (RefContourOpen(c) > 1 \/ RefOpensWithMove)
         => points[c].position = points[RefContourOpen(c)].position

(***************************************************************************)
(* C24: among the points a for_each_point call has delivered, the first    *)
(* has index_in_contour 0 and every later one has either the index of the  *)
(* point before it plus one, or 0; a point with index 0 that is not the    *)
(* first comes right after the closing point of the contour before it,     *)
(* which lies on the first point of that contour when a moveto opened it.  *)
(***************************************************************************)
C24_ContourIndexes ==
    points # <<>>
        => /\ points[1].index_in_contour = 0
           /\ \A k \in 2..Len(points) :
                \/ points[k].index_in_contour = points[k - 1].index_in_contour + 1
                \/ /\ points[k].index_in_contour = 0
                   /\ RefClosing(k - 1)

\* A run has returned Ok with a contour of a moveto and a curve, closed away
\* from the pen, then a second contour opened by a moveto.
C24_Witness ==
    /\ pc = "returned"
    /\ result = "Ok"
    /\ RefOpensWithMove
    /\ Len(points) >= 8
    /\ points[2].kind = "FirstCubicControl"
    /\ \E k \in 4..(Len(points) - 1) :
         /\ points[k + 1].index_in_contour = 0
         /\ points[k].index_in_contour = k - 1
         /\ points[k].position = points[1].position
         /\ points[k].position # points[k - 1].position
    /\ points[Len(points)].index_in_contour >= 2

====
